---- MODULE Spec2Model ----
(***************************************************************************)
(* Model of the two scripts of pcmp_chips:                                 *)
(*   plot_chip_beat_alignment.py  (parse_timing_data, plot_alignment, main)*)
(*   plot_audio_beats.py          (extract_beats, load_audio_envelope,     *)
(*                                 plot_audio_beats)                       *)
(* Times are integers in milliseconds (0.05 s = 50, 0.001 s = 1).  A text  *)
(* line is a sequence of tokens; parsing is modelled on the tokens.        *)
(* Envelope timestamps i / sample_rate are kept as the pair (num, den).    *)
(***************************************************************************)
EXTENDS Integers, Sequences, FiniteSets, TLC

VARIABLES
    \* plot_chip_beat_alignment.py
    pc,             \* position of main / parse_timing_data / plot_alignment
    segments,       \* list of parsed segments
    beats,          \* list of parsed beat times
    in_beats,       \* parse_timing_data's flag
    line,           \* the raw line read last
    nread,          \* number of lines read so far
    seenBT,         \* history: an earlier line contained "Beat times"
    seenHashBT,     \* history: an earlier line started with '#' and contained it
    k,              \* position of the gap loop in segments (1-based)
    gaps,           \* positions for which the dashed gap line was drawn
    j,              \* position of the alignment loop in beats (1-based)
    misalignments,  \* list of <<beat, min_dist>>
    verdict,        \* text annotation: "none", "good", "warning"
    printed,        \* messages printed
    saved,          \* the plot was written to output_file
    exitcode,       \* process exit status, -1 while running
    \* plot_audio_beats.py
    apc,            \* position of plot_audio_beats
    onsetCalls,     \* invocations of aubioonset
    onsetResult,    \* "none", "ok", "failed"
    decodeCalls,    \* invocations of ffmpeg
    decodeResult,   \* "none", "ok", "failed", "notfound"
    beats_in_range, \* beats filtered by max_duration
    tmp_wav,        \* the temporary wav file exists
    sample_rate,
    nsamples,       \* len(audio_data)
    window_size,
    step,           \* window_size // 4
    i,              \* loop variable of the envelope loop
    envelope,       \* per point: length of the slice its RMS is taken over
    envelope_times, \* per point: [num |-> i, den |-> sample_rate]
    aerr,           \* exception that ended the audio script, "" if none
    plotSaved,      \* /tmp/audio_beats_plot.png was written
    aexit           \* process exit status, -1 while running

alignVars == <<pc, segments, beats, in_beats, line, nread, seenBT, seenHashBT,
               k, gaps, j, misalignments, verdict, printed, saved, exitcode>>
audioVars == <<apc, onsetCalls, onsetResult, decodeCalls, decodeResult,
               beats_in_range, tmp_wav, sample_rate, nsamples, window_size,
               step, i, envelope, envelope_times, aerr, plotSaved, aexit>>
vars == <<alignVars, audioVars>>

----------------------------------------------------------------------------
(* Bounds *)
MaxLines == 4
MaxN == 12

(* Program constants, in milliseconds *)
Tolerance == 50
GapEpsilon == 1
MaxDuration == 10000

----------------------------------------------------------------------------
(* Text lines as token sequences *)
Sp   == [kind |-> "sp",   val |-> 0]
Hash == [kind |-> "hash", val |-> 0]
BT   == [kind |-> "bt",   val |-> 0]   \* the substring "Beat times"
Word == [kind |-> "word", val |-> 0]   \* any other non-numeric text
Bar  == [kind |-> "bar",  val |-> 0]
IntTok(n) == [kind |-> "int", val |-> n]   \* an integer literal
DecTok(n) == [kind |-> "dec", val |-> n]   \* a decimal literal, n in 1/1000

Abs(x) == IF x < 0 THEN -x ELSE x
Min2(a, b) == IF b < a THEN b ELSE a

RECURSIVE LStrip(_)
LStrip(s) == IF s # <<>> /\ Head(s).kind = "sp" THEN LStrip(Tail(s)) ELSE s

RECURSIVE RStrip(_)
RStrip(s) ==
    IF s # <<>> /\ s[Len(s)].kind = "sp" THEN RStrip(SubSeq(s, 1, Len(s) - 1)) ELSE s

Strip(s) == RStrip(LStrip(s))

StartsWithHash(s) == s # <<>> /\ Head(s).kind = "hash"

ContainsBeatTimes(s) == \E n \in 1..Len(s) : s[n].kind = "bt"

RECURSIVE Split(_)
Split(s) ==
    IF \E n \in 1..Len(s) : s[n].kind = "bar"
    THEN LET n == CHOOSE m \in 1..Len(s) :
                      s[m].kind = "bar" /\ \A q \in 1..(m - 1) : s[q].kind # "bar"
         IN  <<SubSeq(s, 1, n - 1)>> \o Split(SubSeq(s, n + 1, Len(s)))
    ELSE <<s>>

IntOK(s) == Len(Strip(s)) = 1 /\ Strip(s)[1].kind = "int"
IntVal(s) == Strip(s)[1].val

FloatOK(s) == Len(Strip(s)) = 1 /\ Strip(s)[1].kind \in {"int", "dec"}
FloatVal(s) == IF Strip(s)[1].kind = "int" THEN 1000 * Strip(s)[1].val ELSE Strip(s)[1].val


----------------------------------------------------------------------------
(* The lines a timing data file is made of *)
SegmentLine(idx, chip, year, start, end) ==
    <<idx, Bar, IntTok(chip), Bar, IntTok(year), Bar, DecTok(start), Bar,
      DecTok(end), Bar, DecTok(end - start), Bar, IntTok(3)>>

LineSet ==
    { <<>>,                                         \* blank
      <<Hash, Sp, Word>>,                           \* # comment
      <<Sp, Hash, Sp, BT>>,                         \*  # Beat times
      <<BT>>,                                       \* Beat times
      SegmentLine(IntTok(0), 1, 1990, 0, 100),      \* 0|1|1990|0.0|0.1|...
      SegmentLine(IntTok(1), 2, 1991, 100, 200),    \* 1|2|1991|0.1|0.2|...
      SegmentLine(IntTok(1), 2, 1991, 101, 200),    \* 1 ms after 0.1
      SegmentLine(IntTok(1), 2, 1991, 102, 200),    \* 2 ms after 0.1
      SegmentLine(IntTok(3), 1, 1992, 200, 300),    \* index 3
      SegmentLine(DecTok(500), 1, 1990, 0, 100),    \* 0.5|1|... index not an int
      <<IntTok(0), Bar, IntTok(1), Bar, IntTok(1990), Bar, DecTok(0)>>, \* 4 fields
      <<DecTok(50)>>,                               \* 0.05
      <<Sp, DecTok(151)>>,                          \*  0.151
      <<IntTok(1)>>,                                \* 1
      <<Word>> }                                    \* text

----------------------------------------------------------------------------
(* parse_timing_data *)

\* line 27: the line is blank or a comment and is skipped
SkippedLine(l) == l = <<>> \/ StartsWithHash(l)

SetsInBeatsAnywhere(l) == ContainsBeatTimes(l)

\* lines 27-29: the line switches the parser to the beat section
SetsInBeats(l) == SkippedLine(l) /\ ContainsBeatTimes(l)

\* lines 40-49: the segment a line parses to, <<>> if it parses to none
ParseSegment(l) ==
    LET parts == Split(l) IN
    IF /\ Len(parts) >= 5
       /\ IntOK(parts[1]) /\ IntOK(parts[2])
       /\ FloatOK(parts[4]) /\ FloatOK(parts[5])
    THEN << [segment_idx |-> IntVal(parts[1]), chip_num |-> IntVal(parts[2]),
             start_time |-> FloatVal(parts[4]), end_time |-> FloatVal(parts[5])] >>
    ELSE <<>>

\* lines 33-37: the beat a line parses to, <<>> if it parses to none
ParseBeat(l) == IF FloatOK(l) THEN <<FloatVal(l)>> ELSE <<>>

\* lines 25-49: one iteration of the loop over the file's lines
ReadLine ==
    /\ pc = "parse"
    /\ nread < MaxLines
    /\ \E raw \in LineSet :
         LET l == Strip(raw) IN
         /\ line' = raw
         /\ nread' = nread + 1
         /\ seenBT' = (seenBT \/ ContainsBeatTimes(raw))
         /\ seenHashBT' = (seenHashBT \/ (StartsWithHash(l) /\ ContainsBeatTimes(raw)))
         /\ in_beats' = (in_beats \/ SetsInBeats(l))
         /\ IF SkippedLine(l)
            THEN UNCHANGED <<segments, beats>>
            ELSE IF in_beats
                 THEN beats' = beats \o ParseBeat(l) /\ UNCHANGED segments
                 ELSE segments' = segments \o ParseSegment(l) /\ UNCHANGED beats
    /\ UNCHANGED <<pc, k, gaps, j, misalignments, verdict, printed, saved, exitcode>>
    /\ UNCHANGED audioVars

\* lines 51, 145-146: end of file; main prints the counts and calls plot_alignment
EndOfFile ==
    /\ pc = "parse"
    /\ pc' = "plot"
    /\ line' = <<>>
    /\ printed' = printed \cup {"Loaded"}
    /\ UNCHANGED <<segments, beats, in_beats, nread, seenBT, seenHashBT, k, gaps, j,
                   misalignments, verdict, saved, exitcode>>
    /\ UNCHANGED audioVars

----------------------------------------------------------------------------
(* main *)

\* lines 143-144, 147-149: open the timing file
OpenFile ==
    /\ pc = "main"
    /\ \/ /\ pc' = "parse"
          /\ UNCHANGED <<printed, exitcode>>
       \/ /\ pc' = "exit"
          /\ printed' = printed \cup {"Error: Timing data file not found"}
          /\ exitcode' = 1
    /\ UNCHANGED <<segments, beats, in_beats, line, nread, seenBT, seenHashBT, k, gaps,
                   j, misalignments, verdict, saved>>
    /\ UNCHANGED audioVars

----------------------------------------------------------------------------
(* plot_alignment *)

\* lines 55-57: no segments; the message is printed and the function returns,
\* main (lines 146, 154) then ends normally
PlotNoSegments ==
    /\ pc = "plot"
    /\ segments = <<>>
    /\ printed' = printed \cup {"Error: No segments found in timing data"}
    /\ pc' = "exit"
    /\ exitcode' = 0
    /\ UNCHANGED <<segments, beats, in_beats, line, nread, seenBT, seenHashBT, k, gaps,
                   j, misalignments, verdict, saved>>
    /\ UNCHANGED audioVars

\* lines 59-69: the warning for no beats, the figure and the chip range
PlotStart ==
    /\ pc = "plot"
    /\ segments # <<>>
    /\ printed' = IF beats = <<>>
                  THEN printed \cup {"Warning: No beats found in timing data"}
                  ELSE printed
    /\ pc' = "gaps"
    /\ k' = 1
    /\ UNCHANGED <<segments, beats, in_beats, line, nread, seenBT, seenHashBT, gaps,
                   j, misalignments, verdict, saved, exitcode>>
    /\ UNCHANGED audioVars

\* line 78: the (1-based) place in segments of segments[segment_idx - 1], for
\* the segment visited at place p
PrevIndex(p) == segments[p].segment_idx

\* line 79
IsGap(start_time, prev_end) == Abs(start_time - prev_end) > GapEpsilon

\* lines 71-81: one iteration of the loop over the segments.  An index past the
\* end of the list raises IndexError, which main (lines 150-154) turns into exit 1.
GapStep ==
    /\ pc = "gaps"
    /\ k <= Len(segments)
    /\ IF segments[k].segment_idx > 0
       THEN IF PrevIndex(k) \in 1..Len(segments)
            THEN /\ gaps' = IF IsGap(segments[k].start_time,
                                     segments[PrevIndex(k)].end_time)
                            THEN gaps \cup {k} ELSE gaps
                 /\ k' = k + 1
                 /\ UNCHANGED <<pc, printed, exitcode>>
            ELSE /\ pc' = "exit"
                 /\ printed' = printed \cup {"Error: list index out of range"}
                 /\ exitcode' = 1
                 /\ UNCHANGED <<k, gaps>>
       ELSE /\ k' = k + 1
            /\ UNCHANGED <<pc, gaps, printed, exitcode>>
    /\ UNCHANGED <<segments, beats, in_beats, line, nread, seenBT, seenHashBT,
                   j, misalignments, verdict, saved>>
    /\ UNCHANGED audioVars

AlignGuardSegmentsOnly == segments # <<>>

\* line 102
AlignGuard == beats # <<>> /\ segments # <<>>

\* lines 83-102: the beat lines, the axes, and the guard of the alignment check
GapsDone ==
    /\ pc = "gaps"
    /\ k > Len(segments)
    /\ IF AlignGuard
       THEN pc' = "align" /\ j' = 1
       ELSE pc' = "save" /\ UNCHANGED j
    /\ UNCHANGED <<segments, beats, in_beats, line, nread, seenBT, seenHashBT, k, gaps,
                   misalignments, verdict, printed, saved, exitcode>>
    /\ UNCHANGED audioVars

\* line 107: min(segments, key=lambda s: abs(s[2] - beat)); Python's min gives
\* the first element with the least key
ClosestStart(segs, beat) ==
    segs[CHOOSE n \in 1..Len(segs) :
            /\ \A m \in 1..Len(segs) :
                  Abs(segs[n].start_time - beat) <= Abs(segs[m].start_time - beat)
            /\ \A m \in 1..(n - 1) :
                  Abs(segs[m].start_time - beat) > Abs(segs[n].start_time - beat)]

\* line 108: min(segments, key=lambda s: abs(s[3] - beat))
ClosestEnd(segs, beat) ==
    segs[CHOOSE n \in 1..Len(segs) :
            /\ \A m \in 1..Len(segs) :
                  Abs(segs[n].end_time - beat) <= Abs(segs[m].end_time - beat)
            /\ \A m \in 1..(n - 1) :
                  Abs(segs[m].end_time - beat) > Abs(segs[n].end_time - beat)]

\* lines 109-111
MinDist(segs, beat) ==
    LET dist_start == Abs(ClosestStart(segs, beat).start_time - beat)
        dist_end == Abs(ClosestEnd(segs, beat).end_time - beat)
    IN  Min2(dist_start, dist_end)

MisalignedInclusive(min_dist) == min_dist >= Tolerance

\* line 112
Misaligned(min_dist) == min_dist > Tolerance

\* lines 105-113: one iteration of the loop over the beats
AlignStep ==
    /\ pc = "align"
    /\ j <= Len(beats)
    /\ LET beat == beats[j]
           min_dist == MinDist(segments, beat)
       IN  misalignments' = IF Misaligned(min_dist)
                            THEN Append(misalignments, <<beat, min_dist>>)
                            ELSE misalignments
    /\ j' = j + 1
    /\ UNCHANGED <<pc, segments, beats, in_beats, line, nread, seenBT, seenHashBT, k,
                   gaps, verdict, printed, saved, exitcode>>
    /\ UNCHANGED audioVars

\* lines 115-124: the text annotation
AlignVerdict ==
    /\ pc = "align"
    /\ j > Len(beats)
    /\ verdict' = IF misalignments # <<>> THEN "warning" ELSE "good"
    /\ pc' = "save"
    /\ UNCHANGED <<segments, beats, in_beats, line, nread, seenBT, seenHashBT, k, gaps,
                   j, misalignments, printed, saved, exitcode>>
    /\ UNCHANGED audioVars

\* lines 126-132 and 150-154: the plot is written, or savefig raises and main
\* exits with status 1
SavePlot ==
    /\ pc = "save"
    /\ pc' = "exit"
    /\ \/ /\ saved' = TRUE
          /\ printed' = printed \cup {"Plot saved"}
          /\ exitcode' = 0
       \/ /\ printed' = printed \cup {"Error: savefig"}
          /\ exitcode' = 1
          /\ UNCHANGED saved
    /\ UNCHANGED <<segments, beats, in_beats, line, nread, seenBT, seenHashBT, k, gaps,
                   j, misalignments, verdict>>
    /\ UNCHANGED audioVars

InitAlign ==
    /\ pc = "main"
    /\ segments = <<>>
    /\ beats = <<>>
    /\ in_beats = FALSE
    /\ line = <<>>
    /\ nread = 0
    /\ seenBT = FALSE
    /\ seenHashBT = FALSE
    /\ k = 0
    /\ gaps = {}
    /\ j = 0
    /\ misalignments = <<>>
    /\ verdict = "none"
    /\ printed = {}
    /\ saved = FALSE
    /\ exitcode = -1

AudioIdle ==
    /\ apc = "idle"
    /\ onsetCalls = 0
    /\ onsetResult = "none"
    /\ decodeCalls = 0
    /\ decodeResult = "none"
    /\ beats_in_range = <<>>
    /\ tmp_wav = FALSE
    /\ sample_rate = 0
    /\ nsamples = 0
    /\ window_size = 0
    /\ step = 0
    /\ i = 0
    /\ envelope = <<>>
    /\ envelope_times = <<>>
    /\ aerr = ""
    /\ plotSaved = FALSE
    /\ aexit = -1

AlignIdle ==
    /\ pc = "idle"
    /\ segments = <<>>
    /\ beats = <<>>
    /\ in_beats = FALSE
    /\ line = <<>>
    /\ nread = 0
    /\ seenBT = FALSE
    /\ seenHashBT = FALSE
    /\ k = 0
    /\ gaps = {}
    /\ j = 0
    /\ misalignments = <<>>
    /\ verdict = "none"
    /\ printed = {}
    /\ saved = FALSE
    /\ exitcode = -1

----------------------------------------------------------------------------
(* plot_audio_beats.py *)

\* what aubioonset may write to stdout, one token sequence per line
OnsetOutputs ==
    { <<>>,
      << <<DecTok(500)>> >>,
      << <<DecTok(500)>>, <<Word>>, <<IntTok(12)>>, <<Sp, DecTok(9000)>> >> }

\* the sample rate and the number of samples of the decoded stream
StreamInputs ==
    ({50, 200, 400, 800} \X (0..MaxN)) \cup ({44100} \X {0, 300, 441, 44100})

\* lines 25-31: the beats parsed from the lines of stdout
RECURSIVE ParseOnsetLines(_)
ParseOnsetLines(ls) ==
    IF ls = <<>> THEN <<>>
    ELSE (IF Strip(Head(ls)) # <<>> THEN ParseBeat(Strip(Head(ls))) ELSE <<>>)
         \o ParseOnsetLines(Tail(ls))

\* line 109
RECURSIVE BeatsInRange(_)
BeatsInRange(bs) ==
    IF bs = <<>> THEN <<>>
    ELSE (IF Head(bs) <= MaxDuration THEN <<Head(bs)>> ELSE <<>>)
         \o BeatsInRange(Tail(bs))

ExtractBeatsSwallowsFailure ==
    /\ apc = "start"
    /\ onsetCalls' = onsetCalls + 1
    /\ \/ \E out \in OnsetOutputs :
            /\ onsetResult' = "ok"
            /\ beats_in_range' = BeatsInRange(ParseOnsetLines(out))
       \/ /\ onsetResult' = "failed"
          /\ UNCHANGED beats_in_range
    /\ apc' = "which"
    /\ UNCHANGED <<aerr, aexit>>
    /\ UNCHANGED <<decodeCalls, decodeResult, tmp_wav, sample_rate, nsamples,
                   window_size, step, i, envelope, envelope_times, plotSaved>>
    /\ UNCHANGED alignVars

\* lines 15-35 and 105-110: aubioonset is run once; its failure ends the
\* process with status 1
ExtractBeats ==
    /\ apc = "start"
    /\ onsetCalls' = onsetCalls + 1
    /\ \/ \E out \in OnsetOutputs :
            /\ onsetResult' = "ok"
            /\ beats_in_range' = BeatsInRange(ParseOnsetLines(out))
            /\ apc' = "which"
            /\ UNCHANGED <<aerr, aexit>>
       \/ /\ onsetResult' = "failed"
          /\ apc' = "exit"
          /\ aerr' = "Error extracting beats"
          /\ aexit' = 1
          /\ UNCHANGED beats_in_range
    /\ UNCHANGED <<decodeCalls, decodeResult, tmp_wav, sample_rate, nsamples,
                   window_size, step, i, envelope, envelope_times, plotSaved>>
    /\ UNCHANGED alignVars

\* lines 40-48: ffmpeg is looked up, and the temporary file created
FindFfmpeg ==
    /\ apc = "which"
    /\ \/ /\ apc' = "decode"
          /\ tmp_wav' = TRUE
          /\ UNCHANGED <<decodeResult, aerr, aexit>>
       \/ /\ decodeResult' = "notfound"
          /\ apc' = "exit"
          /\ aerr' = "Error: ffmpeg not found in PATH"
          /\ aexit' = 1
          /\ UNCHANGED tmp_wav
    /\ UNCHANGED <<onsetCalls, onsetResult, decodeCalls, beats_in_range, sample_rate,
                   nsamples, window_size, step, i, envelope, envelope_times, plotSaved>>
    /\ UNCHANGED alignVars

\* lines 50-83 and 98-101: ffmpeg is run once and the wav file read; a failure
\* of ffmpeg propagates through the finally block out of the script
RunFfmpeg ==
    /\ apc = "decode"
    /\ decodeCalls' = decodeCalls + 1
    /\ \/ \E in \in StreamInputs :
            /\ decodeResult' = "ok"
            /\ sample_rate' = in[1]
            /\ nsamples' = in[2]
            /\ apc' = "range"
            /\ UNCHANGED <<tmp_wav, aerr, aexit>>
       \/ /\ decodeResult' = "failed"
          /\ tmp_wav' = FALSE
          /\ apc' = "exit"
          /\ aerr' = "CalledProcessError"
          /\ aexit' = 1
          /\ UNCHANGED <<sample_rate, nsamples>>
    /\ UNCHANGED <<onsetCalls, onsetResult, beats_in_range, window_size, step, i,
                   envelope, envelope_times, plotSaved>>
    /\ UNCHANGED alignVars

\* line 86: int(sample_rate * 0.01)
WindowSize(sr) == sr \div 100

HopSizeHalf(w) == w \div 2

\* line 89: window_size // 4
HopSize(w) == w \div 4

\* lines 86-89 and 98-101: the window, the step, and the range object; range()
\* raises ValueError for a step of 0
EnvelopeRange ==
    /\ apc = "range"
    /\ window_size' = WindowSize(sample_rate)
    /\ step' = HopSize(WindowSize(sample_rate))
    /\ IF HopSize(WindowSize(sample_rate)) = 0
       THEN /\ apc' = "exit"
            /\ aerr' = "ValueError"
            /\ aexit' = 1
            /\ tmp_wav' = FALSE
            /\ UNCHANGED i
       ELSE /\ apc' = "loop"
            /\ i' = 0
            /\ UNCHANGED <<aerr, aexit, tmp_wav>>
    /\ UNCHANGED <<onsetCalls, onsetResult, decodeCalls, decodeResult, beats_in_range,
                   sample_rate, nsamples, envelope, envelope_times, plotSaved>>
    /\ UNCHANGED alignVars

\* line 90: len(audio_data[i:i+window_size])
SliceLen(n, w, at) == Min2(w, n - at)

EmitsPointFullWindow(len) == len = window_size

\* line 91
EmitsPoint(len) == len > 0

\* lines 89-94: one iteration of the envelope loop
EnvelopeStep ==
    /\ apc = "loop"
    /\ i < nsamples
    /\ LET len == SliceLen(nsamples, window_size, i) IN
       IF EmitsPoint(len)
       THEN /\ envelope' = Append(envelope, len)
            /\ envelope_times' =
                   Append(envelope_times, [num |-> i, den |-> sample_rate])
       ELSE UNCHANGED <<envelope, envelope_times>>
    /\ i' = i + step
    /\ UNCHANGED <<apc, onsetCalls, onsetResult, decodeCalls, decodeResult,
                   beats_in_range, tmp_wav, sample_rate, nsamples, window_size, step,
                   aerr, plotSaved, aexit>>
    /\ UNCHANGED alignVars

\* lines 96-101: the loop is over, the arrays are returned, the file removed
EnvelopeReturn ==
    /\ apc = "loop"
    /\ i >= nsamples
    /\ apc' = "plot"
    /\ tmp_wav' = FALSE
    /\ UNCHANGED <<onsetCalls, onsetResult, decodeCalls, decodeResult, beats_in_range,
                   sample_rate, nsamples, window_size, step, i, envelope,
                   envelope_times, aerr, plotSaved, aexit>>
    /\ UNCHANGED alignVars

\* lines 115-168: the plot is drawn and saved; a failure of savefig exits with 1
SaveAudioPlot ==
    /\ apc = "plot"
    /\ apc' = "exit"
    /\ \/ /\ plotSaved' = TRUE
          /\ aexit' = 0
          /\ UNCHANGED aerr
       \/ /\ aerr' = "Error saving plot"
          /\ aexit' = 1
          /\ UNCHANGED plotSaved
    /\ UNCHANGED <<onsetCalls, onsetResult, decodeCalls, decodeResult, beats_in_range,
                   tmp_wav, sample_rate, nsamples, window_size, step, i, envelope,
                   envelope_times>>
    /\ UNCHANGED alignVars

InitAudio ==
    /\ apc = "start"
    /\ onsetCalls = 0
    /\ onsetResult = "none"
    /\ decodeCalls = 0
    /\ decodeResult = "none"
    /\ beats_in_range = <<>>
    /\ tmp_wav = FALSE
    /\ sample_rate = 0
    /\ nsamples = 0
    /\ window_size = 0
    /\ step = 0
    /\ i = 0
    /\ envelope = <<>>
    /\ envelope_times = <<>>
    /\ aerr = ""
    /\ plotSaved = FALSE
    /\ aexit = -1

----------------------------------------------------------------------------
(* The two scripts as specifications *)

Init == InitAlign /\ AudioIdle

Next ==
    \/ OpenFile
    \/ ReadLine
    \/ EndOfFile
    \/ PlotNoSegments
    \/ PlotStart
    \/ GapStep
    \/ GapsDone
    \/ AlignStep
    \/ AlignVerdict
    \/ SavePlot

Spec == Init /\ [][Next]_vars

InitAudioScript == AlignIdle /\ InitAudio

NextAudio ==
    \/ ExtractBeats
    \/ FindFfmpeg
    \/ RunFfmpeg
    \/ EnvelopeRange
    \/ EnvelopeStep
    \/ EnvelopeReturn
    \/ SaveAudioPlot

SpecAudio == InitAudioScript /\ [][NextAudio]_vars

----------------------------------------------------------------------------
(* Properties of plot_chip_beat_alignment.py, checked under Spec *)

\* the start and end times of all segments
Boundaries(segs) ==
    {segs[n].start_time : n \in 1..Len(segs)} \cup {segs[n].end_time : n \in 1..Len(segs)}

\* the least distance from beat b to a boundary
NearestBoundaryDist(segs, b) ==
    CHOOSE d \in {Abs(t - b) : t \in Boundaries(segs)} :
        \A t \in Boundaries(segs) : d <= Abs(t - b)

\* the beats among the first n whose least distance exceeds the tolerance, in
\* order, each with that distance
RECURSIVE ExpectedMisalignments(_)
ExpectedMisalignments(n) ==
    IF n = 0 THEN <<>>
    ELSE ExpectedMisalignments(n - 1) \o
         (IF \A t \in Boundaries(segments) : Abs(t - beats[n]) > Tolerance
          THEN << <<beats[n], NearestBoundaryDist(segments, beats[n])>> >>
          ELSE <<>>)

\* C1: in the alignment check, the reported list holds exactly the beats whose
\* least distance to the start or end of any segment is strictly greater than
\* the tolerance, each with that distance; a beat at exactly the tolerance is
\* not reported, and the annotation counts exactly these beats.
C1_MisalignedIffBeyondTolerance ==
    /\ pc = "align" => misalignments = ExpectedMisalignments(j - 1)
    /\ verdict # "none" =>
          /\ misalignments = ExpectedMisalignments(Len(beats))
          /\ verdict = (IF ExpectedMisalignments(Len(beats)) = <<>>
                        THEN "good" ELSE "warning")

\* a finished check with one beat exactly at the tolerance (not reported) and
\* one beyond it (reported)
C1_Witness ==
    /\ pc = "exit"
    /\ verdict = "warning"
    /\ Len(misalignments) = 1
    /\ \E m \in 1..Len(beats) : NearestBoundaryDist(segments, beats[m]) = Tolerance

C3_EmptyTimelineFails ==
    (pc = "exit" /\ "Loaded" \in printed /\ segments = <<>>) =>
        (verdict = "none" /\ ~saved /\ exitcode # 0)

\* C8 as stated: once a line containing "Beat times" has been read, whatever
\* its first character, every later line that parses as a float is appended to
\* beats; no line before it is a beat; blank and '#' lines before it are ignored.
C8_AnyHeaderOpensBeats ==
    [][nread' = nread + 1 =>
         /\ (seenBT /\ FloatOK(line')) => beats' = Append(beats, FloatVal(line'))
         /\ ~seenBT => beats' = beats
         /\ (~seenBT /\ SkippedLine(Strip(line'))) => UNCHANGED <<segments, beats>>
      ]_vars

\* C8 amended: the beat section opens only at a line that starts with '#' (after
\* stripping) and contains "Beat times"; from then on every line that parses as
\* a float is appended to beats; before it no line is a beat (a line holding
\* "Beat times" without the leading '#' opens nothing); blank and '#' lines
\* change neither list.
C8_HashHeaderOpensBeats ==
    [][nread' = nread + 1 =>
         /\ (seenHashBT /\ FloatOK(line')) => beats' = Append(beats, FloatVal(line'))
         /\ ~seenHashBT => beats' = beats
         /\ SkippedLine(Strip(line')) => UNCHANGED <<segments, beats>>
      ]_vars

\* a float line read after the '#' header was appended, although a plain
\* "Beat times" line never came first
C8_Witness ==
    /\ pc = "parse"
    /\ seenHashBT
    /\ FloatOK(line)
    /\ beats # <<>>
    /\ beats[Len(beats)] = FloatVal(line)

\* C10: the gap check flags the segment at place p exactly when the end of the
\* segment at place p - 1 differs from its start by more than the epsilon, and
\* it never reads outside the list.
C10_GapUsesPrecedingSegment ==
    k >= 1 =>
        /\ "Error: list index out of range" \notin printed
        /\ \A p \in 1..(k - 1) :
              p \in gaps <=>
                 (p > 1 /\ Abs(segments[p - 1].end_time - segments[p].start_time)
                              > GapEpsilon)

----------------------------------------------------------------------------
(* Properties of plot_audio_beats.py, checked under SpecAudio *)

CeilDiv(a, b) == (a + b - 1) \div b

\* the 10 ms window in samples, and a quarter of it
TenMsWindow == sample_rate \div 100
QuarterHop == TenMsWindow \div 4

\* the stream was decoded and the range of the envelope loop has been built
PastRange == decodeResult = "ok" /\ apc # "range"

\* C4 as stated: for N >= window the loop emits ceil((N - window) / hop) + 1
\* points.
C4_CountFullWindowsOnly ==
    (apc = "plot" /\ nsamples >= TenMsWindow) =>
        Len(envelope_times) = CeilDiv(nsamples - TenMsWindow, QuarterHop) + 1

\* C4 amended: for N >= window and hop = window // 4 >= 1 the loop emits
\* ceil(N / hop) points, 401 for N = 44100, window = 441, hop = 110; with a hop
\* of 0 the loop raises ValueError and emits none.
C4_CountCeilNOverHop ==
    /\ (apc = "plot" /\ nsamples >= TenMsWindow) =>
          /\ QuarterHop >= 1
          /\ Len(envelope_times) = CeilDiv(nsamples, QuarterHop)
          /\ Len(envelope) = Len(envelope_times)
    /\ (apc = "plot" /\ sample_rate = 44100 /\ nsamples = 44100) =>
          (TenMsWindow = 441 /\ QuarterHop = 110 /\ Len(envelope_times) = 401)
    /\ (PastRange /\ nsamples >= TenMsWindow /\ QuarterHop = 0) =>
          (aerr = "ValueError" /\ envelope_times = <<>>)

C4_Witness ==
    /\ apc = "plot"
    /\ sample_rate = 44100
    /\ nsamples = 44100
    /\ Len(envelope_times) = 401

\* C5 as stated: for 0 < N < window the loop emits exactly one point, at
\* timestamp 0, over all N samples.
C5_ShortStreamOnePoint ==
    (apc = "plot" /\ 0 < nsamples /\ nsamples < TenMsWindow) =>
        /\ Len(envelope_times) = 1
        /\ envelope_times[1].num = 0
        /\ envelope[1] = nsamples

\* C5 amended: for 0 < N < window and hop = window // 4 >= 1 the loop emits
\* ceil(N / hop) points, the first at timestamp 0 over all N samples, which is
\* one point exactly when N <= hop; with a hop of 0 the loop raises ValueError
\* and emits none.
C5_ShortStreamCeilNOverHop ==
    /\ (apc = "plot" /\ 0 < nsamples /\ nsamples < TenMsWindow) =>
          /\ QuarterHop >= 1
          /\ Len(envelope_times) = CeilDiv(nsamples, QuarterHop)
          /\ envelope_times[1].num = 0
          /\ envelope[1] = nsamples
          /\ (Len(envelope_times) = 1 <=> nsamples <= QuarterHop)
    /\ (PastRange /\ 0 < nsamples /\ nsamples < TenMsWindow /\ QuarterHop = 0) =>
          (aerr = "ValueError" /\ envelope_times = <<>>)

\* a stream shorter than one window that gave three points
C5_Witness ==
    /\ apc = "plot"
    /\ sample_rate = 44100
    /\ nsamples = 300
    /\ Len(envelope_times) = 3

EnvelopeTimesSound ==
    /\ \A m \in 1..Len(envelope_times) :
          /\ envelope_times[m].den = sample_rate
          /\ envelope_times[m].num * sample_rate <= nsamples * envelope_times[m].den
    /\ \A m \in 1..(Len(envelope_times) - 1) :
          envelope_times[m].num * envelope_times[m + 1].den
              <= envelope_times[m + 1].num * envelope_times[m].den
    /\ nsamples > 0 => (envelope_times # <<>> /\ envelope_times[1].num = 0)
    /\ nsamples = 0 => envelope_times = <<>>

EnvelopeTimesSoundWhenReturned == apc = "plot" => EnvelopeTimesSound

\* C9: each external tool is invoked at most once; a failed onset detection
\* ends the run as a failure with the decoder never invoked, and either
\* failure ends it without the plot being saved.
C9_ToolFailureIsFatal ==
    /\ onsetCalls <= 1
    /\ decodeCalls <= 1
    /\ onsetResult = "failed" =>
          (apc = "exit" /\ aexit = 1 /\ decodeCalls = 0 /\ ~plotSaved)
    /\ decodeResult \in {"failed", "notfound"} =>
          (apc = "exit" /\ aexit = 1 /\ ~plotSaved)
    /\ plotSaved => (onsetResult = "ok" /\ decodeResult = "ok")

C9_Witness ==
    /\ apc = "exit"
    /\ onsetCalls = 1
    /\ decodeCalls = 1
    /\ decodeResult = "failed"
    /\ ~plotSaved

====
